---- MODULE Spec2Model ----
(***************************************************************************)
(* The catalog service (catalog_service/server.py) with its two            *)
(* collaborators, the session table of auth_service/main.py and the blob   *)
(* service of file_service/main.py.                                        *)
(*                                                                         *)
(* Every inbound call runs on a worker: it passes the AuthInterceptor and  *)
(* then its handler.  A handler is one action; the action takes one        *)
(* blocking round trip (a session lookup, a document-store operation, a    *)
(* blob request) per step, the position being the worker's pc, so that the *)
(* calls of several workers and the session events interleave between the  *)
(* round trips exactly as the thread pool allows.                          *)
(*                                                                         *)
(* Values: user ids, object ids and names are strings; Python's None is    *)
(* the string None; a list of user ids is the set of its members.          *)
(***************************************************************************)
EXTENDS Integers, Sequences, FiniteSets, TLC

\* ---------------------------------------------------------------- bounds
\* Calls a client begins in one behaviour of the general specification.
MaxCalls == 3
\* Calls begun in one behaviour of the directory-tree specification.
TreeCalls == 4
\* Calls begun in one behaviour of the access-list specification.
AclCalls == 4
\* Calls begun in one behaviour of the listing specification.
ListCalls == 4
\* Calls begun in one behaviour of the move-and-rename specification.
MoveCalls == 4
\* Calls begun in one behaviour of the invitation specification.
InviteCalls == 4
RaceCalls == 3
FaultCalls == 3
CycleCalls == 5
EdgeCalls == 3

\* ------------------------------------------------------------ input sets
None == "None"
Workers == {"w1", "w2"}
Users == {"100", "200"}
SessionIds == {"s1"}
\* The authorization metadata as its space-separated words; <<>>: absent.
Headers == {<<>>, <<"Bearer", "s1">>}

VARIABLES
    sessions,   \* ACTIVE_SESSIONS: session id -> user id
    dirs,       \* dirs_col: _id -> document
    files,      \* files_col: _id -> document
    nextId,     \* the next ObjectId the store hands out
    blob,       \* external ids the blob service was asked to delete
    calls,      \* per worker: the call in flight
    ncalls,     \* calls begun so far
    probe,      \* the last evaluation of the permission functions on a snapshot
    pre         \* history: the store as the call of a sequential client arrived

vars == <<sessions, dirs, files, nextId, blob, calls, ncalls, probe, pre>>
store == <<dirs, files>>

\* ------------------------------------------------------- request / reply
\* A request message with every field at its protobuf default.
NoReq ==
    [id |-> "", name |-> "", parent_id |-> "", parent_directory_id |-> "",
     directory_id |-> "", external_file_id |-> "", is_public |-> FALSE,
     allowed_readers |-> {}, allowed_writers |-> {}]

NoResp == [code |-> "", details |-> "", body |-> <<>>]
Ok(body) == [code |-> "OK", details |-> "", body |-> body]
Abort(code, details) == [code |-> code, details |-> details, body |-> <<>>]

NoPre == [dirs |-> <<>>, files |-> <<>>]

IdleCall ==
    [pc |-> "idle", op |-> "", hdr |-> <<>>, req |-> NoReq, user_id |-> None,
     loc |-> <<>>, resp |-> NoResp, handler |-> FALSE, log |-> {}]

Get(doc, field, default) == IF field \in DOMAIN doc THEN doc[field] ELSE default

DirectoryResponse(id, d) ==
    [id |-> id, name |-> d.name,
     parent_id |-> IF Get(d, "parent_id", None) = None THEN "" ELSE d.parent_id,
     is_public |-> Get(d, "is_public", FALSE), owner_id |-> Get(d, "owner_id", None),
     allowed_readers |-> Get(d, "allowed_readers", {}),
     allowed_writers |-> Get(d, "allowed_writers", {})]

FileResponse(id, f) ==
    [id |-> id, name |-> f.name, external_file_id |-> f.external_file_id,
     is_public |-> Get(f, "is_public", FALSE), owner_id |-> Get(f, "owner_id", None),
     allowed_readers |-> Get(f, "allowed_readers", {}),
     allowed_writers |-> Get(f, "allowed_writers", {})]

DeleteResponse(success, message) == [success |-> success, message |-> message]

\* ------------------------------------------------------------ permissions
\* _can_read without its last test: a writer who is no reader cannot read.
_can_read_NoWriters(doc, user_id) ==
    IF Get(doc, "is_public", FALSE) THEN TRUE
    ELSE IF user_id = None THEN FALSE
    ELSE IF user_id = Get(doc, "owner_id", None) THEN TRUE
    ELSE IF user_id \in Get(doc, "allowed_readers", {}) THEN TRUE
    ELSE FALSE

\* _can_write that reads the wrong list: readers write too.
_can_write_Readers(doc, user_id) ==
    IF user_id = None THEN FALSE
    ELSE IF user_id = Get(doc, "owner_id", None) THEN TRUE
    ELSE IF user_id \in Get(doc, "allowed_readers", {}) THEN TRUE
    ELSE IF user_id \in Get(doc, "allowed_writers", {}) THEN TRUE
    ELSE FALSE

\* _can_read that knows public objects only.
_can_read_PublicOnly(doc, user_id) == Get(doc, "is_public", FALSE)

_can_read(doc, user_id) ==
    IF Get(doc, "is_public", FALSE) THEN TRUE
    ELSE IF user_id = None THEN FALSE
    ELSE IF user_id = Get(doc, "owner_id", None) THEN TRUE
    ELSE IF user_id \in Get(doc, "allowed_readers", {}) THEN TRUE
    ELSE IF user_id \in Get(doc, "allowed_writers", {}) THEN TRUE
    ELSE FALSE

_can_write(doc, user_id) ==
    IF user_id = None THEN FALSE
    ELSE IF user_id = Get(doc, "owner_id", None) THEN TRUE
    ELSE IF user_id \in Get(doc, "allowed_writers", {}) THEN TRUE
    ELSE FALSE

\* ------------------------------------------------------------- identity
\* GetCurrentUser of the session table: the user, or None when it aborts.
GetCurrentUser(SessionID) ==
    IF SessionID \in DOMAIN sessions THEN sessions[SessionID] ELSE None

\* token.startswith('Bearer ') and token.split(' ')[1], on the header's words.
BearerToken(hdr) ==
    IF Len(hdr) >= 2 /\ hdr[1] = "Bearer" THEN hdr[2]
    ELSE IF Len(hdr) = 1 THEN hdr[1] ELSE None

\* "Get" in method_name.split('/')[-1], on the method name's words.
MethodWords ==
    [CreateDirectory |-> <<"Create", "Directory">>,
     UpdateDirectory |-> <<"Update", "Directory">>,
     DeleteDirectory |-> <<"Delete", "Directory">>,
     GetDirectoryContent |-> <<"Get", "Directory", "Content">>,
     RegisterFile |-> <<"Register", "File">>,
     UpdateFile |-> <<"Update", "File">>,
     DeleteFile |-> <<"Delete", "File">>]
Methods == DOMAIN MethodWords
is_read_op(method) == \E i \in DOMAIN MethodWords[method] : MethodWords[method][i] = "Get"

\* is_authenticated with the session lookup left out: any token passes.
is_authenticated_AnyToken(hdr) == BearerToken(hdr) # None

\* The interceptor's is_authenticated.
is_authenticated(hdr) ==
    LET token == BearerToken(hdr)
    IN  token # None /\ token # "" /\ GetCurrentUser(token) # None

\* _get_user_identity: <<user_id, is_auth>>.
_get_user_identity(hdr) ==
    LET token == BearerToken(hdr)
        user == IF hdr = <<>> THEN None ELSE GetCurrentUser(token)
    IN  IF user = None THEN <<None, FALSE>> ELSE <<user, TRUE>>

\* ---------------------------------------------------------- call records
Finish(w, resp) ==
    calls' = [calls EXCEPT ![w] = [@ EXCEPT !.pc = "done", !.resp = resp, !.loc = <<>>]]
Goto(w, pc) == calls' = [calls EXCEPT ![w].pc = pc]
GotoWith(w, pc, loc) == calls' = [calls EXCEPT ![w].pc = pc, ![w].loc = loc]
At(w, op, pcs) == calls[w].op = op /\ calls[w].pc \in pcs

\* Authenticate without the abort: an unresolved caller goes on as None.
Authenticate_NoAbort(w, next) ==
    calls' = [calls EXCEPT ![w].pc = next,
                           ![w].user_id = _get_user_identity(calls[w].hdr)[1]]

\* The handler's first lines: resolve the caller, abort when it is unresolved.
Authenticate(w, next) ==
    LET ident == _get_user_identity(calls[w].hdr)
    IN  IF ~ident[2]
        THEN Finish(w, Abort("UNAUTHENTICATED", "Auth required"))
        ELSE calls' = [calls EXCEPT ![w].pc = next, ![w].user_id = ident[1]]

\* ----------------------------------------------------------------- init
Init ==
    /\ sessions = <<>>
    /\ dirs = <<>>
    /\ files = <<>>
    /\ nextId = 1
    /\ blob = {}
    /\ calls = [w \in Workers |-> IdleCall]
    /\ ncalls = 0
    /\ probe = [doc |-> <<>>, user_id |-> None, can_read |-> FALSE, can_write |-> FALSE]
    /\ pre = NoPre

\* -------------------------------------------------------- session table
CreateSession(SessionID, user) ==
    /\ sessions' = (SessionID :> user) @@ sessions
    /\ UNCHANGED <<dirs, files, nextId, blob, calls, ncalls, probe, pre>>

Logout(SessionID) ==
    /\ SessionID \in DOMAIN sessions
    /\ sessions' = [s \in DOMAIN sessions \ {SessionID} |-> sessions[s]]
    /\ UNCHANGED <<dirs, files, nextId, blob, calls, ncalls, probe, pre>>

\* ------------------------------------------------------------ the calls
\* A call arrives on a free worker and meets the interceptor: the handler is
\* continued with, or the call is answered by the interceptor's abort handler.
intercept_service(w, method, hdr, request) ==
    /\ calls[w].pc = "idle"
    /\ LET call == [IdleCall EXCEPT !.op = method, !.hdr = hdr, !.req = request]
       IN  IF is_authenticated(hdr)
           THEN calls' = [calls EXCEPT ![w] = [call EXCEPT !.pc = "h1", !.handler = TRUE]]
           ELSE IF is_read_op(method)
           THEN calls' = [calls EXCEPT ![w] = [call EXCEPT !.pc = "h1", !.handler = TRUE]]
           ELSE calls' = [calls EXCEPT ![w] =
                  [call EXCEPT !.pc = "done",
                               !.resp = Abort("UNAUTHENTICATED", "Auth required")]]
    /\ UNCHANGED <<sessions, dirs, files, nextId, blob, probe>>

\* A client sends a call, at most limit of them in a behaviour.
Send(w, c, limit) ==
    /\ ncalls < limit
    /\ ncalls' = ncalls + 1
    /\ intercept_service(w, c.method, c.hdr, c.request)
    /\ UNCHANGED pre

\* A sequential client sends a call when no other call is in flight.
SendAlone(w, c, limit) ==
    /\ \A v \in Workers : calls[v].pc = "idle"
    /\ ncalls < limit
    /\ ncalls' = ncalls + 1
    /\ intercept_service(w, c.method, c.hdr, c.request)
    /\ pre' = [dirs |-> dirs, files |-> files]

\* The client has its reply; the worker is free again.
Return(w) ==
    /\ calls[w].pc = "done"
    /\ calls' = [calls EXCEPT ![w] = IdleCall]
    /\ UNCHANGED <<sessions, dirs, files, nextId, blob, ncalls, probe, pre>>

\* The sequential client has its reply.
ReturnAlone(w) ==
    /\ calls[w].pc = "done"
    /\ calls' = [calls EXCEPT ![w] = IdleCall]
    /\ pre' = NoPre
    /\ UNCHANGED <<sessions, dirs, files, nextId, blob, ncalls, probe>>

\* ------------------------------------------------------ Directory RPCs
CreateDirectory(w) ==
    /\ At(w, "CreateDirectory", {"h1", "h2"})
    /\ LET c == calls[w]
           request == c.req
           doc == [name |-> request.name,
                   parent_id |-> IF request.parent_id # "" THEN request.parent_id ELSE None,
                   is_public |-> request.is_public,
                   owner_id |-> c.user_id,
                   allowed_readers |-> request.allowed_readers,
                   allowed_writers |-> request.allowed_writers]
           inserted_id == ToString(nextId)
       IN  IF c.pc = "h1"
           THEN Authenticate(w, "h2") /\ UNCHANGED <<dirs, nextId>>
           ELSE \* insert_one
                /\ dirs' = (inserted_id :> doc) @@ dirs
                /\ nextId' = nextId + 1
                /\ Finish(w, Ok(DirectoryResponse(inserted_id, doc)))
    /\ UNCHANGED <<sessions, files, blob, ncalls, probe, pre>>

\* update_fields for which the empty parent_id means no move, like "no_change".
DirectoryUpdateFields_NoRoot(request, doc) ==
    (IF request.name # "" THEN "name" :> request.name ELSE <<>>)
    @@ (IF request.parent_id \notin {"no_change", ""}
        THEN "parent_id" :> request.parent_id ELSE <<>>)
    @@ (IF request.is_public # Get(doc, "is_public", None)
        THEN "is_public" :> request.is_public ELSE <<>>)

\* update_fields that can make an object public but never private.
DirectoryUpdateFields_KeepPublic(request, doc) ==
    (IF request.name # "" THEN "name" :> request.name ELSE <<>>)
    @@ (IF request.parent_id # "no_change"
        THEN "parent_id" :> (IF request.parent_id # "" THEN request.parent_id ELSE None)
        ELSE <<>>)
    @@ (IF request.is_public THEN "is_public" :> TRUE ELSE <<>>)

\* update_fields that applies the two lists whether they are empty or not.
DirectoryUpdateFields_Lists(request, doc) ==
    (IF request.name # "" THEN "name" :> request.name ELSE <<>>)
    @@ (IF request.is_public # Get(doc, "is_public", None)
        THEN "is_public" :> request.is_public ELSE <<>>)
    @@ "allowed_readers" :> request.allowed_readers
    @@ "allowed_writers" :> request.allowed_writers

\* update_fields that hands the object over to the first of the new writers.
DirectoryUpdateFields_Owner(request, doc) ==
    (IF request.name # "" THEN "name" :> request.name ELSE <<>>)
    @@ (IF request.is_public # Get(doc, "is_public", None)
        THEN "is_public" :> request.is_public ELSE <<>>)
    @@ (IF request.allowed_readers # {}
        THEN "allowed_readers" :> request.allowed_readers ELSE <<>>)
    @@ (IF request.allowed_writers # {}
        THEN "allowed_writers" :> request.allowed_writers
             @@ "owner_id" :> (CHOOSE u \in request.allowed_writers : TRUE)
        ELSE <<>>)

\* update_fields of UpdateDirectory, a map from the fields to set to their values.
\* The parent relation of a collection: to is reached from from in 1..n steps.
RECURSIVE Reaches(_, _, _, _)
Reaches(ds, from, to, n) ==
    /\ n > 0
    /\ from \in DOMAIN ds
    /\ \/ Get(ds[from], "parent_id", None) = to
       \/ Reaches(ds, Get(ds[from], "parent_id", None), to, n - 1)

\* D is its own parent or lies on a cycle of the parent relation.
OnCycle(ds, D) == Reaches(ds, D, D, Cardinality(DOMAIN ds))

\* update_fields with a cycle check: a parent_id that is the directory itself
\* or one of its descendants is left out.
DirectoryUpdateFields_NoCycle(request, doc) ==
    (IF request.name # "" THEN "name" :> request.name ELSE <<>>)
    @@ (IF /\ request.parent_id # "no_change"
           /\ request.parent_id # request.id
           /\ ~Reaches(dirs, request.parent_id, request.id, Cardinality(DOMAIN dirs))
        THEN "parent_id" :> (IF request.parent_id # "" THEN request.parent_id ELSE None)
        ELSE <<>>)
    @@ (IF request.is_public # Get(doc, "is_public", None)
        THEN "is_public" :> request.is_public ELSE <<>>)
    @@ (IF request.allowed_readers # {}
        THEN "allowed_readers" :> request.allowed_readers ELSE <<>>)
    @@ (IF request.allowed_writers # {}
        THEN "allowed_writers" :> request.allowed_writers ELSE <<>>)

DirectoryUpdateFields(request, doc) ==
    (IF request.name # "" THEN "name" :> request.name ELSE <<>>)
    @@ (IF request.parent_id # "no_change"
        THEN "parent_id" :> (IF request.parent_id # "" THEN request.parent_id ELSE None)
        ELSE <<>>)
    @@ (IF request.is_public # Get(doc, "is_public", None)
        THEN "is_public" :> request.is_public ELSE <<>>)
    @@ (IF request.allowed_readers # {}
        THEN "allowed_readers" :> request.allowed_readers ELSE <<>>)
    @@ (IF request.allowed_writers # {}
        THEN "allowed_writers" :> request.allowed_writers ELSE <<>>)

\* ------------------------------------------------------- document store
\* count_documents that finds nothing.
count_documents_Zero(col, field, value) == 0

\* count_documents that also counts the files inside the directory.
count_documents_WithFiles(col, field, value) ==
    Cardinality({d \in DOMAIN col : Get(col[d], field, None) = value})
    + Cardinality({f \in DOMAIN files : files[f].parent_directory_id = value})

\* delete_many and delete_one that remove nothing.
delete_many_Nothing(col, field, value) == col
delete_one_Nothing(col, id) == col

\* delete_one that keeps a document some document of the collection names as
\* its parent: the emptiness check and the removal in one atomic operation.
delete_one_IfChildless(col, id) ==
    IF \E d \in DOMAIN col : Get(col[d], "parent_id", None) = id
    THEN col
    ELSE [d \in DOMAIN col \ {id} |-> col[d]]

\* The owner test replaced by the write test of the update handlers.
not_owner_Writers(doc, user_id) == ~_can_write(doc, user_id)

\* bson's ObjectId(id): an id that is no 24-digit hexadecimal string raises
\* InvalidId; Malformed holds the ids of that kind that requests carry.
Malformed == {"", "x"}
InvalidId == "InvalidId"
ObjectId(id) == IF id \in Malformed THEN InvalidId ELSE id

\* An exception leaves the handler: the call ends with status UNKNOWN.
Raise(w) == Finish(w, Abort("UNKNOWN", "Exception calling application"))

\* count_documents({field: value}).
count_documents(col, field, value) ==
    Cardinality({d \in DOMAIN col : Get(col[d], field, None) = value})

\* delete_many({field: value}): the collection without the matching documents.
delete_many(col, field, value) ==
    [d \in {e \in DOMAIN col : Get(col[e], field, None) # value} |-> col[d]]

\* delete_one({"_id": id}).
delete_one(col, id) == [d \in DOMAIN col \ {id} |-> col[d]]

\* The delete handlers' test that the caller is not the owner.
not_owner(doc, user_id) == Get(doc, "owner_id", None) # user_id

\* update_one that replaces the document by the fields instead of setting them.
update_one_Replace(col, id, update_fields) ==
    IF id \in DOMAIN col
    THEN [col EXCEPT ![id] = update_fields]
    ELSE col

\* update_one that sets nothing.
update_one_Nothing(col, id, update_fields) == col

\* update_one({"_id": id}, {"$set": update_fields}): no document, no effect.
update_one(col, id, update_fields) ==
    IF id \in DOMAIN col
    THEN [col EXCEPT ![id] = update_fields @@ col[id]]
    ELSE col

UpdateDirectory(w) ==
    /\ At(w, "UpdateDirectory", {"h1", "h2", "h3", "h4"})
    /\ LET c == calls[w]
           request == c.req
       IN  CASE c.pc = "h1" -> Authenticate(w, "h2") /\ UNCHANGED dirs
             [] c.pc = "h2" -> \* find_one, the permission check, update_fields
                  /\ IF ObjectId(request.id) = InvalidId
                     THEN Raise(w)
                     ELSE IF ObjectId(request.id) \notin DOMAIN dirs
                     THEN Finish(w, Abort("NOT_FOUND", "Directory not found"))
                     ELSE IF ~_can_write(dirs[request.id], c.user_id)
                     THEN Finish(w, Abort("PERMISSION_DENIED", "No write permission"))
                     ELSE LET update_fields == DirectoryUpdateFields(request, dirs[request.id])
                          IN  GotoWith(w, IF DOMAIN update_fields # {} THEN "h3" ELSE "h4",
                                       update_fields)
                  /\ UNCHANGED dirs
             [] c.pc = "h3" -> \* update_one
                  /\ dirs' = update_one(dirs, request.id, c.loc)
                  /\ Goto(w, "h4")
             [] c.pc = "h4" -> \* find_one; a vanished document raises inside the try
                  /\ IF request.id \in DOMAIN dirs
                     THEN Finish(w, Ok(DirectoryResponse(request.id, dirs[request.id])))
                     ELSE calls' = [calls EXCEPT ![w] =
                            [@ EXCEPT !.pc = "done", !.loc = <<>>,
                                      !.resp = Abort("INTERNAL", "Update failed"),
                                      !.log = @ \cup {"DB Error"}]]
                  /\ UNCHANGED dirs
    /\ UNCHANGED <<sessions, files, nextId, blob, ncalls, probe, pre>>

DeleteDirectory(w) ==
    /\ At(w, "DeleteDirectory", {"h1", "h2", "h3", "h4", "h5"})
    /\ LET c == calls[w]
           request == c.req
       IN  CASE c.pc = "h1" -> Authenticate(w, "h2") /\ UNCHANGED <<dirs, files>>
             [] c.pc = "h2" -> \* find_one, the owner check
                  /\ IF ObjectId(request.id) = InvalidId
                     THEN Raise(w)
                     ELSE IF ObjectId(request.id) \notin DOMAIN dirs
                     THEN Finish(w, Abort("NOT_FOUND", "Not found"))
                     ELSE IF not_owner(dirs[request.id], c.user_id)
                     THEN Finish(w, Abort("PERMISSION_DENIED", "Only owner can delete"))
                     ELSE Goto(w, "h3")
                  /\ UNCHANGED <<dirs, files>>
             [] c.pc = "h3" -> \* count_documents({"parent_id": request.id})
                  /\ IF count_documents(dirs, "parent_id", request.id) > 0
                     THEN Finish(w, Ok(DeleteResponse(FALSE, "Directory not empty")))
                     ELSE Goto(w, "h4")
                  /\ UNCHANGED <<dirs, files>>
             [] c.pc = "h4" -> \* files_col.delete_many
                  /\ files' = delete_many(files, "parent_directory_id", request.id)
                  /\ Goto(w, "h5")
                  /\ UNCHANGED dirs
             [] c.pc = "h5" -> \* dirs_col.delete_one
                  /\ dirs' = delete_one(dirs, request.id)
                  /\ Finish(w, Ok(DeleteResponse(TRUE, "Deleted")))
                  /\ UNCHANGED files
    /\ UNCHANGED <<sessions, nextId, blob, ncalls, probe, pre>>

GetDirectoryContent(w) ==
    /\ At(w, "GetDirectoryContent", {"h1", "h2", "h3", "h4"})
    /\ LET c == calls[w]
           request == c.req
           pid == IF request.directory_id # "" THEN request.directory_id ELSE None
       IN  CASE c.pc = "h1" -> \* the caller may stay anonymous
                  calls' = [calls EXCEPT ![w].pc = IF pid # None THEN "h2" ELSE "h3",
                                         ![w].user_id = _get_user_identity(c.hdr)[1]]
             [] c.pc = "h2" -> \* find_one of the container, its read check
                  IF ObjectId(pid) = InvalidId
                  THEN Raise(w)
                  ELSE IF ObjectId(pid) \notin DOMAIN dirs
                  THEN Finish(w, Abort("NOT_FOUND", "Directory not found"))
                  ELSE IF ~_can_read(dirs[pid], c.user_id)
                  THEN calls' = [calls EXCEPT ![w] =
                         [@ EXCEPT !.pc = "done", !.loc = <<>>,
                                   !.resp = Abort("PERMISSION_DENIED",
                                       "You do not have permission to view this directory"),
                                   !.log = @ \cup {"Access DENIED"}]]
                  ELSE Goto(w, "h3")
             [] c.pc = "h3" -> \* dirs_col.find({"parent_id": pid}), filtered
                  GotoWith(w, "h4",
                      {DirectoryResponse(d, dirs[d]) :
                         d \in {e \in DOMAIN dirs :
                                  /\ Get(dirs[e], "parent_id", None) = pid
                                  /\ _can_read(dirs[e], c.user_id)}})
             [] c.pc = "h4" -> \* files_col.find({"parent_directory_id": pid}), filtered
                  Finish(w, Ok([directories |-> c.loc,
                                files |-> {FileResponse(f, files[f]) :
                                   f \in {g \in DOMAIN files :
                                            /\ files[g].parent_directory_id = pid
                                            /\ _can_read(files[g], c.user_id)}}]))
    /\ UNCHANGED <<sessions, dirs, files, nextId, blob, ncalls, probe, pre>>

\* ----------------------------------------------------------- File RPCs
\* RegisterFile that stores the root sentinel for an empty parent_directory_id,
\* as CreateDirectory does for an empty parent_id.
RegisterFile_RootSentinel(w) ==
    /\ At(w, "RegisterFile", {"h1", "h2"})
    /\ LET c == calls[w]
           request == c.req
           doc == [name |-> request.name,
                   parent_directory_id |-> IF request.parent_directory_id # ""
                                           THEN request.parent_directory_id ELSE None,
                   external_file_id |-> request.external_file_id,
                   is_public |-> request.is_public,
                   owner_id |-> c.user_id,
                   allowed_readers |-> request.allowed_readers,
                   allowed_writers |-> request.allowed_writers]
           inserted_id == ToString(nextId)
       IN  IF c.pc = "h1"
           THEN Authenticate(w, "h2") /\ UNCHANGED <<files, nextId>>
           ELSE /\ files' = (inserted_id :> doc) @@ files
                /\ nextId' = nextId + 1
                /\ Finish(w, Ok(FileResponse(inserted_id, doc)))
    /\ UNCHANGED <<sessions, dirs, blob, ncalls, probe, pre>>

RegisterFile(w) ==
    /\ At(w, "RegisterFile", {"h1", "h2"})
    /\ LET c == calls[w]
           request == c.req
           doc == [name |-> request.name,
                   parent_directory_id |-> request.parent_directory_id,
                   external_file_id |-> request.external_file_id,
                   is_public |-> request.is_public,
                   owner_id |-> c.user_id,
                   allowed_readers |-> request.allowed_readers,
                   allowed_writers |-> request.allowed_writers]
           inserted_id == ToString(nextId)
       IN  IF c.pc = "h1"
           THEN Authenticate(w, "h2") /\ UNCHANGED <<files, nextId>>
           ELSE \* insert_one
                /\ files' = (inserted_id :> doc) @@ files
                /\ nextId' = nextId + 1
                /\ Finish(w, Ok(FileResponse(inserted_id, doc)))
    /\ UNCHANGED <<sessions, dirs, blob, ncalls, probe, pre>>

\* update_fields that sets the name whether it is empty or not.
FileUpdateFields_AlwaysName(request, doc) ==
    ("name" :> request.name)
    @@ (IF request.is_public # Get(doc, "is_public", None)
        THEN "is_public" :> request.is_public ELSE <<>>)

\* update_fields of UpdateFile.
FileUpdateFields(request, doc) ==
    (IF request.name # "" THEN "name" :> request.name ELSE <<>>)
    @@ (IF request.is_public # Get(doc, "is_public", None)
        THEN "is_public" :> request.is_public ELSE <<>>)
    @@ (IF request.allowed_readers # {}
        THEN "allowed_readers" :> request.allowed_readers ELSE <<>>)
    @@ (IF request.allowed_writers # {}
        THEN "allowed_writers" :> request.allowed_writers ELSE <<>>)

UpdateFile(w) ==
    /\ At(w, "UpdateFile", {"h1", "h2", "h3", "h4"})
    /\ LET c == calls[w]
           request == c.req
       IN  CASE c.pc = "h1" -> Authenticate(w, "h2") /\ UNCHANGED files
             [] c.pc = "h2" -> \* find_one, the permission check, update_fields
                  /\ IF ObjectId(request.id) = InvalidId
                     THEN Raise(w)
                     ELSE IF ObjectId(request.id) \notin DOMAIN files
                     THEN Finish(w, Abort("NOT_FOUND", "File not found"))
                     ELSE IF ~_can_write(files[request.id], c.user_id)
                     THEN Finish(w, Abort("PERMISSION_DENIED", "No write permission"))
                     ELSE LET update_fields == FileUpdateFields(request, files[request.id])
                          IN  GotoWith(w, IF DOMAIN update_fields # {} THEN "h3" ELSE "h4",
                                       update_fields)
                  /\ UNCHANGED files
             [] c.pc = "h3" -> \* update_one
                  /\ files' = update_one(files, request.id, c.loc)
                  /\ Goto(w, "h4")
             [] c.pc = "h4" -> \* find_one; a vanished document raises, uncaught
                  /\ IF request.id \in DOMAIN files
                     THEN Finish(w, Ok(FileResponse(request.id, files[request.id])))
                     ELSE Finish(w, Abort("UNKNOWN", "Exception calling application"))
                  /\ UNCHANGED files
    /\ UNCHANGED <<sessions, dirs, nextId, blob, ncalls, probe, pre>>

\* delete_files that tells nobody when the request failed.
delete_files_Silent(log, delivered) == log

\* FileServiceClient.delete_files: a failed request is logged and swallowed.
delete_files(log, delivered) ==
    IF delivered THEN log ELSE log \cup {"File Service error"}

DeleteFile(w) ==
    /\ At(w, "DeleteFile", {"h1", "h2", "h3", "h4"})
    /\ LET c == calls[w]
           request == c.req
       IN  CASE c.pc = "h1" -> Authenticate(w, "h2") /\ UNCHANGED <<files, blob>>
             [] c.pc = "h2" -> \* find_one, the owner check
                  /\ IF ObjectId(request.id) = InvalidId
                     THEN Raise(w)
                     ELSE IF ObjectId(request.id) \notin DOMAIN files
                     THEN Finish(w, Abort("NOT_FOUND", "File not found"))
                     ELSE IF not_owner(files[request.id], c.user_id)
                     THEN Finish(w, Abort("PERMISSION_DENIED", "Only owner can delete file"))
                     ELSE GotoWith(w, "h3", files[request.id])
                  /\ UNCHANGED <<files, blob>>
             [] c.pc = "h3" -> \* files_col.delete_one
                  /\ files' = delete_one(files, request.id)
                  /\ Goto(w, "h4")
                  /\ UNCHANGED blob
             [] c.pc = "h4" -> \* file_service.delete_files([external_file_id])
                  /\ \E delivered \in BOOLEAN :
                       /\ blob' = IF delivered THEN blob \cup {c.loc.external_file_id}
                                  ELSE blob
                       /\ calls' = [calls EXCEPT ![w] =
                            [@ EXCEPT !.pc = "done", !.loc = <<>>,
                                      !.resp = Ok(DeleteResponse(TRUE, "Deleted")),
                                      !.log = delete_files(@, delivered)]]
                  /\ UNCHANGED files
    /\ UNCHANGED <<sessions, dirs, nextId, ncalls, probe, pre>>

\* ---------------------------------------------------------- workloads
Call(method, hdr, request) == [method |-> method, hdr |-> hdr, request |-> request]

\* One or two requests of every method, with and without a credential.
RequestsWith(h) ==
    {Call("CreateDirectory", h, [NoReq EXCEPT !.name = "a", !.allowed_writers = {"200"}]),
     Call("UpdateDirectory", h, [NoReq EXCEPT !.id = "1", !.name = "b",
                                              !.parent_id = "no_change"]),
     Call("DeleteDirectory", h, [NoReq EXCEPT !.id = "1"]),
     Call("GetDirectoryContent", h, [NoReq EXCEPT !.directory_id = "1"]),
     Call("GetDirectoryContent", h, NoReq),
     Call("RegisterFile", h, [NoReq EXCEPT !.name = "a", !.parent_directory_id = "1",
                                           !.external_file_id = "e1"]),
     Call("UpdateFile", h, [NoReq EXCEPT !.id = "2", !.name = "b"]),
     Call("DeleteFile", h, [NoReq EXCEPT !.id = "2"])}
Requests == UNION {RequestsWith(h) : h \in Headers}

\* ----------------------------------------------------------------- next
Sessions ==
    \/ \E s \in SessionIds : \E u \in Users : CreateSession(s, u)
    \/ \E s \in SessionIds : Logout(s)

Next ==
    \/ Sessions
    \/ \E w \in Workers : \E c \in Requests : Send(w, c, MaxCalls)
    \/ \E w \in Workers : CreateDirectory(w)
    \/ \E w \in Workers : UpdateDirectory(w)
    \/ \E w \in Workers : DeleteDirectory(w)
    \/ \E w \in Workers : GetDirectoryContent(w)
    \/ \E w \in Workers : RegisterFile(w)
    \/ \E w \in Workers : UpdateFile(w)
    \/ \E w \in Workers : DeleteFile(w)
    \/ \E w \in Workers : Return(w)

Spec == Init /\ [][Next]_vars

\* ------------------------------------------------ the permission functions
\* A stored document's access fields, each present or (an older record) absent.
FieldChoices(field, values) == {<<>>} \cup {field :> v : v \in values}
AclSnapshots ==
    {p @@ o @@ r @@ x :
       p \in FieldChoices("is_public", BOOLEAN),
       o \in FieldChoices("owner_id", Users),
       r \in FieldChoices("allowed_readers", SUBSET Users),
       x \in FieldChoices("allowed_writers", SUBSET Users)}

\* _can_read and _can_write are evaluated on a snapshot for a caller.
Permissions(doc, user_id) ==
    /\ probe' = [doc |-> doc, user_id |-> user_id,
                 can_read |-> _can_read(doc, user_id),
                 can_write |-> _can_write(doc, user_id)]
    /\ UNCHANGED <<sessions, dirs, files, nextId, blob, calls, ncalls, pre>>

NextPerm == \E doc \in AclSnapshots : \E user_id \in Users \cup {None} : Permissions(doc, user_id)

SpecPerm == Init /\ [][NextPerm]_vars

\* ------------------------------------------------------ the directory tree
\* A sequential client that builds and deletes directories and files.
TreeRequests ==
    LET h == <<"Bearer", "s1">>
    IN  {Call("CreateDirectory", h, [NoReq EXCEPT !.name = "a", !.parent_id = p,
                                                  !.allowed_writers = {"200"}]) :
           p \in {"", "1"}}
        \cup {Call("RegisterFile", h, [NoReq EXCEPT !.name = "a", !.parent_directory_id = p,
                                                    !.external_file_id = "e1",
                                                    !.allowed_writers = {"200"}]) :
                 p \in {"1", "2"}}
        \cup {Call("DeleteDirectory", h, [NoReq EXCEPT !.id = i]) : i \in {"1", "2"}}
        \cup {Call("DeleteFile", h, [NoReq EXCEPT !.id = i]) : i \in {"2", "3"}}
        \cup {Call("GetDirectoryContent", h, [NoReq EXCEPT !.directory_id = i]) :
                 i \in {"", "1"}}

\* Sessions are created and ended between the sequential client's calls.
SessionsAlone == (\A v \in Workers : calls[v].pc = "idle") /\ Sessions

NextTree ==
    \/ SessionsAlone
    \/ \E c \in TreeRequests : SendAlone("w1", c, TreeCalls)
    \/ CreateDirectory("w1")
    \/ RegisterFile("w1")
    \/ DeleteDirectory("w1")
    \/ DeleteFile("w1")
    \/ GetDirectoryContent("w1")
    \/ ReturnAlone("w1")

SpecTree == Init /\ [][NextTree]_vars

\* ------------------------------------------------------- the access lists
\* A sequential client that creates objects and rewrites their access fields.
AclRequests ==
    LET h == <<"Bearer", "s1">>
    IN  {Call("CreateDirectory", h, [NoReq EXCEPT !.name = "a", !.allowed_writers = {"200"}]),
         Call("RegisterFile", h, [NoReq EXCEPT !.name = "a", !.parent_directory_id = "1",
                                               !.external_file_id = "e1",
                                               !.allowed_writers = {"200"}])}
        \cup {Call("UpdateDirectory", h,
                   [NoReq EXCEPT !.id = "1", !.parent_id = "no_change", !.is_public = p,
                                 !.allowed_readers = r, !.allowed_writers = x]) :
                 p \in BOOLEAN, r \in {{}, {"200"}}, x \in {{}, {"100"}, {"200"}}}
        \cup {Call("UpdateFile", h,
                   [NoReq EXCEPT !.id = "2", !.is_public = p, !.allowed_writers = x]) :
                 p \in BOOLEAN, x \in {{}, {"100"}}}

NextAcl ==
    \/ SessionsAlone
    \/ \E c \in AclRequests : SendAlone("w1", c, AclCalls)
    \/ CreateDirectory("w1")
    \/ UpdateDirectory("w1")
    \/ RegisterFile("w1")
    \/ UpdateFile("w1")
    \/ ReturnAlone("w1")

SpecAcl == Init /\ [][NextAcl]_vars

\* ------------------------------------------------------------ the listings
\* A sequential client that creates public and private objects and lists them,
\* with a credential and without one.
ListRequests ==
    LET h == <<"Bearer", "s1">>
    IN  {Call("CreateDirectory", h, [NoReq EXCEPT !.name = "a", !.parent_id = p,
                                                  !.is_public = b,
                                                  !.allowed_readers = {"200"}]) :
           p \in {"", "1"}, b \in BOOLEAN}
        \cup {Call("RegisterFile", h, [NoReq EXCEPT !.name = "a", !.parent_directory_id = "1",
                                                    !.external_file_id = "e1",
                                                    !.allowed_writers = {"200"}])}
        \cup {Call("GetDirectoryContent", h, [NoReq EXCEPT !.directory_id = i]) :
                 i \in {"1", "2", "x"}}
        \cup {Call("GetDirectoryContent", <<>>, [NoReq EXCEPT !.directory_id = i]) :
                 i \in {"", "1"}}

NextList ==
    \/ SessionsAlone
    \/ \E c \in ListRequests : SendAlone("w1", c, ListCalls)
    \/ CreateDirectory("w1")
    \/ RegisterFile("w1")
    \/ GetDirectoryContent("w1")
    \/ ReturnAlone("w1")

SpecList == Init /\ [][NextList]_vars

\* ------------------------------------------------------- moves and renames
\* A sequential client that creates directories and a file, renames them, moves
\* the second object and lists the root and the first directory.
MoveRequests ==
    LET h == <<"Bearer", "s1">>
    IN  {Call("CreateDirectory", h, [NoReq EXCEPT !.name = "a", !.parent_id = p,
                                                  !.allowed_writers = {"200"}]) :
           p \in {"", "1"}}
        \cup {Call("RegisterFile", h, [NoReq EXCEPT !.name = "a", !.parent_directory_id = "1",
                                                    !.external_file_id = "e1"])}
        \cup {Call("UpdateDirectory", h,
                   [NoReq EXCEPT !.id = "2", !.name = n, !.parent_id = p, !.is_public = b]) :
                 n \in {"", "b"}, p \in {"no_change", "", "1"}, b \in BOOLEAN}
        \cup {Call("UpdateFile", h, [NoReq EXCEPT !.id = "2", !.name = n, !.is_public = b]) :
                 n \in {"", "b"}, b \in BOOLEAN}
        \cup {Call("GetDirectoryContent", h, [NoReq EXCEPT !.directory_id = i]) :
                 i \in {"", "1"}}

NextMove ==
    \/ SessionsAlone
    \/ \E c \in MoveRequests : SendAlone("w1", c, MoveCalls)
    \/ CreateDirectory("w1")
    \/ UpdateDirectory("w1")
    \/ RegisterFile("w1")
    \/ UpdateFile("w1")
    \/ GetDirectoryContent("w1")
    \/ ReturnAlone("w1")

SpecMove == Init /\ [][NextMove]_vars

\* ---------------------------------------------------------- invitations
\* A third user, who owns nothing and is on no list until invited.
Guests == {"300"}

\* A sequential client: an owner creates a directory with a writer, its
\* allowed_readers are rewritten, and the directory is listed.
InviteRequests ==
    LET h == <<"Bearer", "s1">>
    IN  {Call("CreateDirectory", h, [NoReq EXCEPT !.name = "a", !.allowed_writers = {"200"}]),
         Call("GetDirectoryContent", h, [NoReq EXCEPT !.directory_id = "1"])}
        \cup {Call("UpdateDirectory", h,
                   [NoReq EXCEPT !.id = "1", !.parent_id = "no_change",
                                 !.allowed_readers = r]) :
                 r \in {{}, {"200"}, {"300"}}}

InviteSessions ==
    /\ \A v \in Workers : calls[v].pc = "idle"
    /\ \/ \E u \in Users \cup Guests : CreateSession("s1", u)
       \/ Logout("s1")

NextInvite ==
    \/ InviteSessions
    \/ \E c \in InviteRequests : SendAlone("w1", c, InviteCalls)
    \/ CreateDirectory("w1")
    \/ UpdateDirectory("w1")
    \/ GetDirectoryContent("w1")
    \/ ReturnAlone("w1")

SpecInvite == Init /\ [][NextInvite]_vars

\* ================================================================ claims
WriteMethods ==
    {"CreateDirectory", "UpdateDirectory", "DeleteDirectory",
     "RegisterFile", "UpdateFile", "DeleteFile"}
HandlerPcs == {"h1", "h2", "h3", "h4", "h5"}

\* The header carries a session id that the session table holds now.
CredentialResolves(hdr) ==
    \/ Len(hdr) = 2 /\ hdr[1] = "Bearer" /\ hdr[2] \in DOMAIN sessions
    \/ Len(hdr) = 1 /\ hdr[1] \in DOMAIN sessions

AclPublic(doc) == "is_public" \in DOMAIN doc /\ doc["is_public"]
AclOwner(doc, u) == "owner_id" \in DOMAIN doc /\ doc["owner_id"] = u
AclReader(doc, u) == "allowed_readers" \in DOMAIN doc /\ u \in doc["allowed_readers"]
AclWriter(doc, u) == "allowed_writers" \in DOMAIN doc /\ u \in doc["allowed_writers"]

\* C3: canRead(acl, caller) is true exactly when is_public is true, or the caller
\* is not none and is the owner, an allowed reader or an allowed writer; a public
\* object is readable by every caller, none included; an absent field counts as
\* false / the empty list.
C3_CanRead ==
    LET doc == probe.doc
        u == probe.user_id
    IN  /\ probe.can_read <=>
             \/ AclPublic(doc)
             \/ u # None /\ (AclOwner(doc, u) \/ AclReader(doc, u) \/ AclWriter(doc, u))
        /\ AclPublic(doc) => probe.can_read
        /\ DOMAIN doc = {} => ~probe.can_read

\* A caller who is only in allowed_writers of a record without the other fields reads.
C3_Witness ==
    /\ probe.doc = ("allowed_writers" :> {"200"})
    /\ probe.user_id = "200"
    /\ probe.can_read

\* C4: canWrite(acl, caller) is true exactly when the caller is not none and is
\* the owner or an allowed writer; is_public and allowed_readers never grant it.
C4_CanWrite ==
    LET doc == probe.doc
        u == probe.user_id
    IN  /\ probe.can_write <=> u # None /\ (AclOwner(doc, u) \/ AclWriter(doc, u))
        /\ ~AclOwner(doc, u) /\ ~AclWriter(doc, u) => ~probe.can_write

\* A caller who is an allowed reader of a public object, and nothing more, cannot write.
C4_Witness ==
    /\ AclPublic(probe.doc) /\ AclReader(probe.doc, probe.user_id)
    /\ "owner_id" \in DOMAIN probe.doc /\ "allowed_writers" \in DOMAIN probe.doc
    /\ ~AclOwner(probe.doc, probe.user_id) /\ ~AclWriter(probe.doc, probe.user_id)
    /\ ~probe.can_write /\ probe.can_read

StoredObjects == {dirs[d] : d \in DOMAIN dirs} \cup {files[f] : f \in DOMAIN files}
Callers == Users \cup {None}

\* canWrite implies canRead on every snapshot, fields present or absent.
WriteImpliesReadOnSnapshots ==
    \A doc \in AclSnapshots : \A u \in Callers : _can_write(doc, u) => _can_read(doc, u)

\* C5: on every ACL snapshot and for every caller canWrite implies canRead; and
\* in every reachable state every stored object has an owner who satisfies both
\* canRead and canWrite, whatever the updates of its writers made of is_public,
\* allowed_readers and allowed_writers.
C5_OwnerKeepsAccess ==
    /\ WriteImpliesReadOnSnapshots
    /\ \A doc \in StoredObjects :
         /\ \A u \in Callers : _can_write(doc, u) => _can_read(doc, u)
         /\ Get(doc, "owner_id", None) \in Users
         /\ _can_read(doc, Get(doc, "owner_id", None))
         /\ _can_write(doc, Get(doc, "owner_id", None))

\* A writer who is not the owner has rewritten the lists of a private directory,
\* and the owner is in neither of them.
C5_Witness ==
    /\ calls["w1"].pc = "done" /\ calls["w1"].op = "UpdateDirectory"
    /\ calls["w1"].resp.code = "OK" /\ calls["w1"].user_id = "200"
    /\ "1" \in DOMAIN dirs
    /\ dirs["1"].owner_id = "100" /\ ~dirs["1"].is_public
    /\ dirs["1"].allowed_readers = {"200"} /\ dirs["1"].allowed_writers = {"200"}
    /\ dirs # pre.dirs

\* ------------------------------------------------ the sequential client's call
TheCall == calls["w1"]
ChildDirs(ds, D) == {d \in DOMAIN ds : ds[d].parent_id = D}
FilesIn(fs, D) == {f \in DOMAIN fs : fs[f].parent_directory_id = D}
StoreAsBefore == dirs = pre.dirs /\ files = pre.files

\* DeleteDirectory(D) of D's owner has been answered; pre is the store it found.
OwnerDeleteDone(D) ==
    /\ TheCall.pc = "done" /\ TheCall.handler
    /\ TheCall.op = "DeleteDirectory" /\ TheCall.req.id = D
    /\ D \in DOMAIN pre.dirs
    /\ TheCall.user_id = pre.dirs[D].owner_id

Succeeded(resp) == resp.code = "OK" /\ resp.body.success
Refused(resp) == resp.code = "OK" /\ ~resp.body.success

\* C6: DeleteDirectory(D) by D's owner while some directory has parent_id = D is
\* answered with success=false, a normal response, and at no point of the call
\* is anything deleted: D, its files and its child directories stay in the store.
C6_RefusedWhenChildDirectory ==
    /\ \A D \in DOMAIN pre.dirs :
         OwnerDeleteDone(D) /\ ChildDirs(pre.dirs, D) # {}
         => Refused(TheCall.resp) /\ StoreAsBefore
    /\ TheCall.op = "DeleteDirectory" /\ ChildDirs(pre.dirs, TheCall.req.id) # {}
       => StoreAsBefore

\* The owner's delete of a directory holding a child directory and a file was refused.
C6_Witness ==
    /\ OwnerDeleteDone("1") /\ Refused(TheCall.resp)
    /\ ChildDirs(dirs, "1") # {} /\ FilesIn(files, "1") # {}

\* C7 as stated: DeleteDirectory(D) by D's owner while files are inside D, and no
\* directory, is answered with success=false and D stays in the store.
C7_RefusedWhenFiles ==
    \A D \in DOMAIN pre.dirs :
      OwnerDeleteDone(D) /\ ChildDirs(pre.dirs, D) = {} /\ FilesIn(pre.files, D) # {}
      => Refused(TheCall.resp) /\ D \in DOMAIN dirs

\* C7, amended: DeleteDirectory(D) by D's owner while files are inside D, and no
\* directory, is answered with success=true and D is no longer in the store.
C7_DeletedWhenOnlyFiles ==
    \A D \in DOMAIN pre.dirs :
      OwnerDeleteDone(D) /\ ChildDirs(pre.dirs, D) = {} /\ FilesIn(pre.files, D) # {}
      => Succeeded(TheCall.resp) /\ D \notin DOMAIN dirs

\* A directory holding two files, and no directory, was deleted by its owner.
C7_Witness ==
    /\ OwnerDeleteDone("1") /\ Succeeded(TheCall.resp)
    /\ FilesIn(pre.files, "1") = {"2", "3"}
    /\ "1" \notin DOMAIN dirs

\* C8: DeleteDirectory(D) by D's owner while D holds files and no child directory
\* is answered with success=true, removes D and every file whose
\* parent_directory_id = D, and removes or changes no other directory or file.
C8_CascadeToFilesOnly ==
    \A D \in DOMAIN pre.dirs :
      OwnerDeleteDone(D) /\ ChildDirs(pre.dirs, D) = {} /\ FilesIn(pre.files, D) # {}
      => /\ TheCall.resp = Ok(DeleteResponse(TRUE, "Deleted"))
         /\ DOMAIN dirs = DOMAIN pre.dirs \ {D}
         /\ \A d \in DOMAIN dirs : dirs[d] = pre.dirs[d]
         /\ DOMAIN files = DOMAIN pre.files \ FilesIn(pre.files, D)
         /\ \A f \in DOMAIN files : files[f] = pre.files[f]

\* The delete took the directory and its file and left the other directory.
C8_Witness ==
    /\ OwnerDeleteDone("2") /\ Succeeded(TheCall.resp)
    /\ FilesIn(pre.files, "2") = {"3"} /\ files = <<>>
    /\ DOMAIN dirs = {"1"}

\* The ids the store has handed out so far.
IdsIssued == {ToString(i) : i \in 1..(nextId - 1)}

\* C9: for a sequential client, DeleteDirectory(D) by D's owner when no directory
\* has parent_id = D is answered with success=true and D is gone for good: it is
\* not in the store, its id is never handed out again, a later
\* GetDirectoryContent(D) is answered with not-found and no listing holds a
\* directory that is not in the store.  (So a parent whose only child has been
\* deleted is deleted by the next attempt, and a chain of one owner's nested
\* directories can be deleted from the deepest level upwards.)
C9_DeletedMeansUnreachable ==
    /\ [](\A D \in DOMAIN pre.dirs :
            OwnerDeleteDone(D) /\ ChildDirs(pre.dirs, D) = {}
            => Succeeded(TheCall.resp) /\ D \notin DOMAIN dirs)
    /\ [](DOMAIN dirs \cup DOMAIN files \subseteq IdsIssued)
    /\ [][/\ IdsIssued \subseteq IdsIssued'
          /\ DOMAIN dirs' \subseteq DOMAIN dirs \cup (IdsIssued' \ IdsIssued)]_vars
    /\ [](TheCall.pc = "done" /\ TheCall.op = "GetDirectoryContent"
          => IF TheCall.req.directory_id \notin DOMAIN dirs \cup {""}
             THEN TheCall.resp.code = "NOT_FOUND"
             ELSE TheCall.resp.code = "OK"
                  => \A r \in TheCall.resp.body.directories : r.id \in DOMAIN dirs)

\* The only child of a directory was deleted by the owner of both, and the
\* parent, still in the store, has no child directory left.
C9_Witness ==
    /\ OwnerDeleteDone("2") /\ Succeeded(TheCall.resp)
    /\ pre.dirs["2"].parent_id = "1" /\ "1" \in DOMAIN dirs
    /\ dirs["1"].owner_id = TheCall.user_id
    /\ ChildDirs(pre.dirs, "1") = {"2"} /\ ChildDirs(dirs, "1") = {}

\* C10: DeleteDirectory and DeleteFile of an authenticated caller who is not the
\* object's owner_id, an allowed writer included, are answered with
\* permission-denied, and the store is at no point of the call changed.
C10_OnlyOwnerDeletes ==
    LET col == IF TheCall.op = "DeleteDirectory" THEN pre.dirs ELSE pre.files
        id == TheCall.req.id
    IN  /\ TheCall.op \in {"DeleteDirectory", "DeleteFile"}
        /\ TheCall.user_id \in Users
        /\ id \in DOMAIN col
        /\ col[id].owner_id # TheCall.user_id
        => /\ StoreAsBefore
           /\ TheCall.pc = "done" => TheCall.resp.code = "PERMISSION_DENIED"

\* An allowed writer of a file who does not own it was denied its deletion.
C10_Witness ==
    /\ TheCall.pc = "done" /\ TheCall.op = "DeleteFile" /\ TheCall.req.id = "2"
    /\ "2" \in DOMAIN files
    /\ files["2"].owner_id = "100" /\ TheCall.user_id = "200"
    /\ "200" \in files["2"].allowed_writers
    /\ TheCall.resp.code = "PERMISSION_DENIED"

\* C11: a directory or file leaves the store only within a call whose resolved
\* caller is that object's own owner_id, the files that a DeleteDirectory
\* cascade removes included.
C11_RemovedByOwnerOnly ==
    /\ \A d \in DOMAIN pre.dirs \ DOMAIN dirs : pre.dirs[d].owner_id = TheCall.user_id
    /\ \A f \in DOMAIN pre.files \ DOMAIN files : pre.files[f].owner_id = TheCall.user_id

\* Worker w took a step of its call of method op with a resolved caller.
StepOf(w, op) ==
    calls'[w] # calls[w] /\ calls[w].op = op /\ calls[w].user_id \in Users

\* C12: the owner_id of a directory or file is the identity resolved for the
\* caller of the CreateDirectory / RegisterFile call that inserts it, and no step
\* of any later operation, an update by the owner or by a writer included,
\* changes the owner_id of a stored object.
C12_OwnerSetAtCreationOnly ==
    [][/\ \A d \in DOMAIN dirs' \ DOMAIN dirs :
            \E w \in Workers : StepOf(w, "CreateDirectory")
                                /\ dirs'[d].owner_id = calls[w].user_id
       /\ \A f \in DOMAIN files' \ DOMAIN files :
            \E w \in Workers : StepOf(w, "RegisterFile")
                                /\ files'[f].owner_id = calls[w].user_id
       /\ \A d \in DOMAIN dirs' \cap DOMAIN dirs : dirs'[d].owner_id = dirs[d].owner_id
       /\ \A f \in DOMAIN files' \cap DOMAIN files :
            files'[f].owner_id = files[f].owner_id]_vars

\* A writer who is not the owner has changed a file's access fields, and the
\* file is still its creator's.
C12_Witness ==
    /\ TheCall.pc = "done" /\ TheCall.op = "UpdateFile" /\ TheCall.resp.code = "OK"
    /\ TheCall.user_id = "200" /\ "2" \in DOMAIN pre.files
    /\ files["2"] # pre.files["2"]
    /\ files["2"].owner_id = "100" /\ TheCall.resp.body.owner_id = "100"

UpdateMethods == {"UpdateDirectory", "UpdateFile"}
\* The collection an update or delete call of the sequential client found.
PreCollection == IF TheCall.op \in {"UpdateDirectory", "DeleteDirectory"}
                 THEN pre.dirs ELSE pre.files
NowCollection == IF TheCall.op \in {"UpdateDirectory", "DeleteDirectory"}
                 THEN dirs ELSE files
\* An update of the sequential client on a stored object has been answered OK.
UpdateDone ==
    /\ TheCall.pc = "done" /\ TheCall.op \in UpdateMethods
    /\ TheCall.resp.code = "OK" /\ TheCall.req.id \in DOMAIN PreCollection

\* C13: UpdateDirectory / UpdateFile on a stored object by an authenticated
\* caller who is neither its owner nor in its allowed_writers (one who is only
\* in allowed_readers, say) is answered with permission-denied and the object,
\* like the rest of the store, is unchanged; by the owner or by an allowed
\* writer the same request succeeds.
C13_UpdateNeedsWriteAccess ==
    LET id == TheCall.req.id
        u == TheCall.user_id
    IN  TheCall.op \in UpdateMethods /\ u \in Users /\ id \in DOMAIN PreCollection
        => IF AclOwner(PreCollection[id], u) \/ AclWriter(PreCollection[id], u)
           THEN TheCall.pc = "done" => TheCall.resp.code = "OK"
           ELSE /\ StoreAsBefore
                /\ TheCall.pc = "done" => TheCall.resp.code = "PERMISSION_DENIED"

\* A caller who is in allowed_readers only was denied the update of a directory.
C13_Witness ==
    /\ TheCall.pc = "done" /\ TheCall.op = "UpdateDirectory"
    /\ TheCall.resp.code = "PERMISSION_DENIED" /\ TheCall.user_id = "200"
    /\ "1" \in DOMAIN dirs
    /\ AclReader(dirs["1"], "200") /\ ~AclWriter(dirs["1"], "200")
    /\ ~AclOwner(dirs["1"], "200")

\* canRead as the specification states it.
Readable(doc, u) ==
    \/ AclPublic(doc)
    \/ u # None /\ (AclOwner(doc, u) \/ AclReader(doc, u) \/ AclWriter(doc, u))

\* The identity the sequential client's credential resolves to during its call.
ResolvedCaller ==
    IF Len(TheCall.hdr) = 2 /\ TheCall.hdr[2] \in DOMAIN sessions
    THEN sessions[TheCall.hdr[2]] ELSE None

GetDone == TheCall.pc = "done" /\ TheCall.op = "GetDirectoryContent"

\* C14: GetDirectoryContent(X) for a stored X that answers with a listing lists
\* exactly the directories with parent_id = X and the files with
\* parent_directory_id = X that the caller can read, each as it is stored: no
\* unreadable child is disclosed, no readable child is left out, and an
\* anonymous caller gets the public children.
C14_ListingIsTheReadableChildren ==
    LET X == TheCall.req.directory_id
        u == ResolvedCaller
        body == TheCall.resp.body
    IN  GetDone /\ TheCall.resp.code = "OK" /\ X \in DOMAIN dirs
        => /\ {r.id : r \in body.directories}
                = {d \in DOMAIN dirs : dirs[d].parent_id = X /\ Readable(dirs[d], u)}
           /\ {r.id : r \in body.files}
                = {f \in DOMAIN files :
                     files[f].parent_directory_id = X /\ Readable(files[f], u)}
           /\ \A r \in body.directories :
                /\ r.owner_id = dirs[r.id].owner_id /\ r.is_public = dirs[r.id].is_public
                /\ u = None => r.is_public
           /\ \A r \in body.files :
                /\ r.owner_id = files[r.id].owner_id /\ r.is_public = files[r.id].is_public
                /\ u = None => r.is_public

\* An anonymous caller listed a public directory: its public child directory is
\* in the listing, its private file is not.
C14_Witness ==
    /\ GetDone /\ TheCall.resp.code = "OK" /\ TheCall.hdr = <<>>
    /\ TheCall.req.directory_id = "1"
    /\ {r.id : r \in TheCall.resp.body.directories} = {"2"}
    /\ FilesIn(files, "1") = {"3"} /\ TheCall.resp.body.files = {}

\* C15: GetDirectoryContent(X) with a non-empty X is answered with not-found when
\* X is not stored and with permission-denied when the caller cannot read X, in
\* both cases without a listing; otherwise the container check passes: it looks
\* at X's own access fields and the caller only, never at X's parent.
C15_ContainerCheck ==
    LET X == TheCall.req.directory_id
    IN  GetDone /\ X # ""
        => IF X \notin DOMAIN dirs
           THEN TheCall.resp.code = "NOT_FOUND" /\ TheCall.resp.body = <<>>
           ELSE IF ~Readable(dirs[X], ResolvedCaller)
           THEN TheCall.resp.code = "PERMISSION_DENIED" /\ TheCall.resp.body = <<>>
           ELSE TheCall.resp.code = "OK"

\* C18: an update that carries an empty allowed_readers (allowed_writers) leaves
\* the stored list as it is, and no step of any call makes a stored non-empty
\* allowed_readers or allowed_writers empty: once non-empty, a list stays
\* non-empty as long as the object is stored.
C18_ListsAreNeverCleared ==
    /\ [](UpdateDone =>
            LET id == TheCall.req.id
            IN  /\ TheCall.req.allowed_readers = {}
                   => NowCollection[id].allowed_readers = PreCollection[id].allowed_readers
                /\ TheCall.req.allowed_writers = {}
                   => NowCollection[id].allowed_writers = PreCollection[id].allowed_writers)
    /\ [][/\ \A d \in DOMAIN dirs \cap DOMAIN dirs' :
              /\ dirs[d].allowed_readers # {} => dirs'[d].allowed_readers # {}
              /\ dirs[d].allowed_writers # {} => dirs'[d].allowed_writers # {}
          /\ \A f \in DOMAIN files \cap DOMAIN files' :
              /\ files[f].allowed_readers # {} => files'[f].allowed_readers # {}
              /\ files[f].allowed_writers # {} => files'[f].allowed_writers # {}]_vars

\* An update with both lists empty changed a directory whose lists are not
\* empty, and the lists are as before.
C18_Witness ==
    /\ UpdateDone /\ TheCall.op = "UpdateDirectory"
    /\ TheCall.req.allowed_readers = {} /\ TheCall.req.allowed_writers = {}
    /\ dirs["1"] # pre.dirs["1"]
    /\ dirs["1"].allowed_readers = {"200"} /\ dirs["1"].allowed_writers = {"100"}

\* C16: a successful UpdateDirectory(B, parent_id = P) with P other than
\* "no_change" stores P as B's parent (the root when P is empty, reported as
\* parent_id "") and changes nothing else of the tree: no other directory, no
\* file, no object added or removed.  Every listing holds exactly the readable
\* directories whose stored parent is the listed container, so from then on B
\* is listed under its new parent and not under its previous one.
C16_MoveSetsTheParent ==
    /\ UpdateDone /\ TheCall.op = "UpdateDirectory" /\ TheCall.req.parent_id # "no_change"
       => LET B == TheCall.req.id
              P == TheCall.req.parent_id
          IN  /\ dirs[B].parent_id = (IF P = "" THEN None ELSE P)
              /\ TheCall.resp.body.parent_id = P
              /\ dirs[B].owner_id = pre.dirs[B].owner_id
              /\ DOMAIN dirs = DOMAIN pre.dirs
              /\ \A d \in DOMAIN dirs \ {B} : dirs[d] = pre.dirs[d]
              /\ files = pre.files
    /\ GetDone /\ TheCall.resp.code = "OK"
       => LET X == TheCall.req.directory_id
          IN  {r.id : r \in TheCall.resp.body.directories}
                = {d \in DOMAIN dirs :
                     /\ dirs[d].parent_id = (IF X = "" THEN None ELSE X)
                     /\ Readable(dirs[d], ResolvedCaller)}

\* The second directory was moved out of the first one to the root.
C16_Witness ==
    /\ UpdateDone /\ TheCall.op = "UpdateDirectory" /\ TheCall.req.parent_id = ""
    /\ pre.dirs["2"].parent_id = "1" /\ dirs["2"].parent_id = None
    /\ TheCall.resp.body.parent_id = ""

\* C17: a successful UpdateDirectory / UpdateFile with an empty name leaves the
\* stored name as it is, a successful UpdateDirectory with parent_id "no_change"
\* leaves the stored parent_id as it is, and a non-empty name becomes the stored
\* name and the name of the returned object.
C17_OmittedFieldsAreKept ==
    UpdateDone
    => LET id == TheCall.req.id
       IN  /\ TheCall.req.name = "" => NowCollection[id].name = PreCollection[id].name
           /\ TheCall.req.name # ""
              => /\ NowCollection[id].name = TheCall.req.name
                 /\ TheCall.resp.body.name = TheCall.req.name
           /\ TheCall.op = "UpdateDirectory" /\ TheCall.req.parent_id = "no_change"
              => dirs[id].parent_id = pre.dirs[id].parent_id

\* An update of a file with an empty name changed the file and not its name.
C17_Witness ==
    /\ UpdateDone /\ TheCall.op = "UpdateFile" /\ TheCall.req.name = ""
    /\ files["2"] # pre.files["2"]
    /\ files["2"].name = "a" /\ TheCall.resp.body.name = "a"

\* C19: for a sequential client, after every successful UpdateDirectory /
\* UpdateFile the stored is_public is the is_public of the request; a rename
\* that carries is_public = false makes a public object private.
C19_IsPublicIsAlwaysApplied ==
    UpdateDone
    => /\ NowCollection[TheCall.req.id].is_public = TheCall.req.is_public
       /\ TheCall.resp.body.is_public = TheCall.req.is_public

\* A rename with is_public = false was applied to a public directory, which is
\* private now.
C19_Witness ==
    /\ UpdateDone /\ TheCall.op = "UpdateDirectory"
    /\ TheCall.req.name = "b" /\ TheCall.req.parent_id = "no_change"
    /\ pre.dirs["2"].is_public /\ ~dirs["2"].is_public
    /\ dirs["2"].name = "b"

\* The access fields of a stored object.
AclOf(doc) == <<doc.is_public, doc.owner_id, doc.allowed_readers, doc.allowed_writers>>

\* C20: a change of the access fields takes effect for every later call.  A
\* successful UpdateDirectory(D) with a non-empty allowed_readers stores that
\* list; D's access fields then stay as they are until a step of another
\* UpdateDirectory(D); and every GetDirectoryContent(D) is decided by the access
\* fields stored at that time: denied with permission-denied for a caller who
\* cannot read D, answered with a listing for one who can, so for R from the
\* moment R is in allowed_readers.
C20_AclChangeTakesEffect ==
    /\ [](UpdateDone /\ TheCall.op = "UpdateDirectory" /\ TheCall.req.allowed_readers # {}
          => dirs[TheCall.req.id].allowed_readers = TheCall.req.allowed_readers)
    /\ [](GetDone /\ TheCall.req.directory_id \in DOMAIN dirs
          => IF Readable(dirs[TheCall.req.directory_id], ResolvedCaller)
             THEN TheCall.resp.code = "OK"
             ELSE TheCall.resp.code = "PERMISSION_DENIED")
    /\ [][\A d \in DOMAIN dirs \cap DOMAIN dirs' :
            AclOf(dirs'[d]) # AclOf(dirs[d])
            => \E w \in Workers : /\ calls'[w] # calls[w]
                                  /\ calls[w].op = "UpdateDirectory"
                                  /\ calls[w].req.id = d]_vars

\* The guest, now in the allowed_readers of a private directory that another
\* user owns, lists it.
C20_Witness ==
    /\ GetDone /\ TheCall.resp.code = "OK" /\ ResolvedCaller = "300"
    /\ dirs["1"].owner_id = "100" /\ ~dirs["1"].is_public
    /\ dirs["1"].allowed_readers = {"300"} /\ dirs["1"].allowed_writers = {"200"}

\* ------------------------------------------------------ concurrent clients
\* Two clients at once on one directory: it is created, a child is created
\* inside it, it is renamed, its allowed_writers are rewritten without "200",
\* and it is deleted; the handlers' round trips interleave freely.
RaceRequests ==
    LET h == <<"Bearer", "s1">>
    IN  {Call("CreateDirectory", h,
              [NoReq EXCEPT !.name = "a", !.parent_id = p, !.allowed_writers = {"200"}]) :
           p \in {"", "1"}}
        \cup {Call("UpdateDirectory", h, [NoReq EXCEPT !.id = "1", !.name = "b",
                                                       !.parent_id = "no_change"]),
              Call("UpdateDirectory", h, [NoReq EXCEPT !.id = "1", !.parent_id = "no_change",
                                                       !.allowed_writers = {"100"}]),
              Call("DeleteDirectory", h, [NoReq EXCEPT !.id = "1"])}

NextRace ==
    \/ Sessions
    \/ \E w \in Workers :
         \/ \E c \in RaceRequests : Send(w, c, RaceCalls)
         \/ CreateDirectory(w)
         \/ UpdateDirectory(w)
         \/ DeleteDirectory(w)
         \/ Return(w)

SpecRace == Init /\ [][NextRace]_vars

\* C21: a CreateDirectory whose caller resolves always succeeds, whatever the
\* other worker does meanwhile: its insert adds exactly one directory under
\* an id no stored object has, owned by the caller, with the request's name,
\* lists and flag and the request's parent_id (the root for the empty one,
\* whether or not the parent exists), changes no other object, and the reply
\* carries that id.
C21_CreateAddsOneFreshDirectory ==
    [][\A w \in Workers :
         (calls[w].op = "CreateDirectory" /\ calls'[w] # calls[w]) =>
            /\ (calls[w].pc = "h1" /\ _get_user_identity(calls[w].hdr)[2])
                  => calls'[w].pc = "h2"
            /\ calls[w].pc = "h2" =>
                 LET request == calls[w].req
                     id == calls'[w].resp.body.id
                 IN  /\ calls[w].user_id \in Users
                     /\ calls'[w].pc = "done"
                     /\ calls'[w].resp.code = "OK"
                     /\ id \notin DOMAIN dirs \cup DOMAIN files
                     /\ DOMAIN dirs' = DOMAIN dirs \cup {id}
                     /\ \A d \in DOMAIN dirs : dirs'[d] = dirs[d]
                     /\ files' = files
                     /\ dirs'[id] =
                          [name |-> request.name,
                           parent_id |-> IF request.parent_id = "" THEN None
                                         ELSE request.parent_id,
                           is_public |-> request.is_public,
                           owner_id |-> calls[w].user_id,
                           allowed_readers |-> request.allowed_readers,
                           allowed_writers |-> request.allowed_writers]]_vars

\* Two CreateDirectory calls that were in their handlers together have both
\* succeeded, with different ids, one of them naming the other as its parent.
C21_Witness ==
    /\ \A w \in Workers : /\ calls[w].pc = "done"
                          /\ calls[w].op = "CreateDirectory"
                          /\ calls[w].resp.code = "OK"
                          /\ calls[w].resp.body.id \in DOMAIN dirs
    /\ calls["w1"].resp.body.id # calls["w2"].resp.body.id
    /\ calls["w2"].resp.body.id = "1"
    /\ calls["w1"].req.parent_id = "1"
    /\ Cardinality(DOMAIN dirs) = 2

\* C22: DeleteFile by the owner removes the document before it asks the blob
\* service to delete the external_file_id; whether that request is delivered
\* or fails (the failure is logged and swallowed) the reply is success=true
\* and the document stays removed.
C22_BlobFailureIsSwallowed ==
    [][(TheCall.op = "DeleteFile" /\ TheCall.pc = "h4" /\ calls' # calls) =>
         LET id == TheCall.req.id
             ext == pre.files[id].external_file_id
         IN  /\ id \in DOMAIN pre.files /\ pre.files[id].owner_id = TheCall.user_id
             /\ id \notin DOMAIN files
             /\ files' = files
             /\ calls'["w1"].pc = "done"
             /\ Succeeded(calls'["w1"].resp)
             /\ \/ blob' = blob \cup {ext} /\ calls'["w1"].log = TheCall.log
                \/ /\ blob' = blob
                   /\ calls'["w1"].log = TheCall.log \cup {"File Service error"}]_vars

\* The request failed, the reply is success=true and the file is gone.
C22_Witness ==
    /\ TheCall.pc = "done" /\ TheCall.op = "DeleteFile"
    /\ "File Service error" \in TheCall.log
    /\ blob = {}
    /\ Succeeded(TheCall.resp)
    /\ TheCall.req.id \in DOMAIN pre.files
    /\ TheCall.req.id \notin DOMAIN files

\* ------------------------------------------------------- a failing store
\* The round trip to the store that a handler is about to make raises
\* instead (PyMongoError) and writes nothing. CreateDirectory's insert and
\* UpdateDirectory's update_one and second find_one sit in a try block: the
\* error is logged and the call aborts INTERNAL. Every other round trip is
\* unguarded: the exception leaves the handler.
StoreRoundTrips ==
    [CreateDirectory |-> {"h2"},
     UpdateDirectory |-> {"h2", "h3", "h4"},
     DeleteDirectory |-> {"h2", "h3", "h4", "h5"},
     GetDirectoryContent |-> {"h2", "h3", "h4"},
     RegisterFile |-> {"h2"},
     UpdateFile |-> {"h2", "h3", "h4"},
     DeleteFile |-> {"h2", "h3"}]

PyMongoError(w) ==
    /\ calls[w].op \in Methods
    /\ calls[w].pc \in StoreRoundTrips[calls[w].op]
    /\ LET c == calls[w]
       IN  IF c.op = "CreateDirectory"
           THEN calls' = [calls EXCEPT ![w] =
                  [@ EXCEPT !.pc = "done", !.loc = <<>>,
                            !.resp = Abort("INTERNAL", "Write failed"),
                            !.log = @ \cup {"DB Error"}]]
           ELSE IF c.op = "UpdateDirectory" /\ c.pc \in {"h3", "h4"}
           THEN calls' = [calls EXCEPT ![w] =
                  [@ EXCEPT !.pc = "done", !.loc = <<>>,
                            !.resp = Abort("INTERNAL", "Update failed"),
                            !.log = @ \cup {"DB Error"}]]
           ELSE Raise(w)
    /\ UNCHANGED <<sessions, dirs, files, nextId, blob, ncalls, probe, pre>>

\* A sequential client: a directory with a file in it is renamed and
\* deleted, the file is deleted, while any round trip to the store may fail.
FaultRequests ==
    LET h == <<"Bearer", "s1">>
    IN  {Call("CreateDirectory", h, [NoReq EXCEPT !.name = "a"]),
         Call("RegisterFile", h, [NoReq EXCEPT !.name = "a", !.parent_directory_id = "1",
                                               !.external_file_id = "e1"]),
         Call("UpdateDirectory", h, [NoReq EXCEPT !.id = "1", !.name = "b",
                                                  !.parent_id = "no_change"]),
         Call("DeleteDirectory", h, [NoReq EXCEPT !.id = "1"]),
         Call("DeleteFile", h, [NoReq EXCEPT !.id = "2"])}

NextFault ==
    \/ SessionsAlone
    \/ \E c \in FaultRequests : SendAlone("w1", c, FaultCalls)
    \/ CreateDirectory("w1")
    \/ RegisterFile("w1")
    \/ UpdateDirectory("w1")
    \/ DeleteDirectory("w1")
    \/ DeleteFile("w1")
    \/ PyMongoError("w1")
    \/ ReturnAlone("w1")

SpecFault == Init /\ [][NextFault]_vars

\* C23: when a round trip to the store can fail at any step, a finished
\* DeleteDirectory has either removed the directory and every file in it, or
\* has changed nothing and has not reported success; the store never keeps
\* the directory while the files that were in it are gone.
C23_AllOrNothing ==
    (TheCall.pc = "done" /\ TheCall.op = "DeleteDirectory"
       /\ TheCall.req.id \in DOMAIN pre.dirs) =>
        LET D == TheCall.req.id
        IN  \/ D \notin DOMAIN dirs /\ FilesIn(files, D) = {}
            \/ StoreAsBefore /\ ~Succeeded(TheCall.resp)

\* C24: DeleteDirectory looks for child directories once, at its
\* count_documents; its later delete_one removes D and the reply is
\* success=true whatever was created or moved under D in between, and the
\* children stay stored with a parent_id that names the removed D.
C24_RemovalDoesNotLookAgain ==
    [][\A w \in Workers :
         (calls[w].op = "DeleteDirectory" /\ calls[w].pc = "h5" /\ calls'[w] # calls[w]) =>
            LET D == calls[w].req.id
            IN  /\ D \notin DOMAIN dirs'
                /\ Succeeded(calls'[w].resp)
                /\ \A d \in ChildDirs(dirs, D) \ {D} :
                     d \in DOMAIN dirs' /\ dirs'[d].parent_id = D]_vars

\* DeleteDirectory(1) is past its emptiness check and about to remove the
\* directory, and the other worker's CreateDirectory has meanwhile completed
\* with a child of directory 1.
C24_Witness ==
    /\ calls["w1"].op = "DeleteDirectory" /\ calls["w1"].pc = "h5"
    /\ calls["w1"].req.id = "1" /\ "1" \in DOMAIN dirs
    /\ calls["w2"].op = "CreateDirectory" /\ calls["w2"].pc = "done"
    /\ calls["w2"].resp.code = "OK"
    /\ calls["w2"].resp.body.id = "2"
    /\ ChildDirs(dirs, "1") = {"2"}

\* ------------------------------------------------------------------ cycles
\* A sequential client: two directories are created in the root, each is
\* moved under itself, under the other one or back to the root, and deleted.
CycleRequests ==
    LET h == <<"Bearer", "s1">>
    IN  {Call("CreateDirectory", h, [NoReq EXCEPT !.name = "a", !.allowed_writers = {"200"}])}
        \cup {Call("UpdateDirectory", h, [NoReq EXCEPT !.id = i, !.parent_id = p]) :
                 i \in {"1", "2"}, p \in {"", "1", "2"}}
        \cup {Call("DeleteDirectory", h, [NoReq EXCEPT !.id = i]) : i \in {"1", "2"}}

NextCycle ==
    \/ SessionsAlone
    \/ \E c \in CycleRequests : SendAlone("w1", c, CycleCalls)
    \/ CreateDirectory("w1")
    \/ UpdateDirectory("w1")
    \/ DeleteDirectory("w1")
    \/ ReturnAlone("w1")

SpecCycle == Init /\ [][NextCycle]_vars

\* The request of the call in flight asks for a parent that is the directory
\* itself or, in the store as the call arrived, one of its descendants.
ClosesCycle ==
    \/ TheCall.req.parent_id = TheCall.req.id
    \/ Reaches(pre.dirs, TheCall.req.parent_id, TheCall.req.id,
               Cardinality(DOMAIN pre.dirs))

\* C25: an UpdateDirectory by a caller who may write the directory, asking
\* for a parent_id that is the directory's own id or the id of one of its
\* descendants, succeeds like any other move: the parent_id is stored and the
\* directory is then on a cycle of the parent relation.
C25_NoCycleCheck ==
    (/\ TheCall.pc = "done" /\ TheCall.op = "UpdateDirectory"
     /\ TheCall.req.id \in DOMAIN pre.dirs
     /\ _can_write(pre.dirs[TheCall.req.id], TheCall.user_id)
     /\ TheCall.req.parent_id \in DOMAIN pre.dirs
     /\ ClosesCycle) =>
        /\ TheCall.resp.code = "OK"
        /\ TheCall.resp.body.parent_id = TheCall.req.parent_id
        /\ dirs[TheCall.req.id].parent_id = TheCall.req.parent_id
        /\ OnCycle(dirs, TheCall.req.id)

\* Writer 200, who owns neither directory, has moved directory 1 under its
\* child 2: the store had no cycle before and has one now.
C25_Witness ==
    /\ TheCall.pc = "done" /\ TheCall.op = "UpdateDirectory"
    /\ TheCall.resp.code = "OK"
    /\ TheCall.user_id = "200"
    /\ DOMAIN dirs = {"1", "2"}
    /\ \A d \in DOMAIN dirs : dirs[d].owner_id = "100"
    /\ \A d \in DOMAIN pre.dirs : ~OnCycle(pre.dirs, d)
    /\ TheCall.req.id = "1" /\ TheCall.req.parent_id = "2"
    /\ dirs["1"].parent_id = "2" /\ dirs["2"].parent_id = "1"

\* C29: a DeleteDirectory by the owner on a directory that is its own parent
\* or lies on a cycle of the parent relation ends with success=false and
\* changes nothing; a directory leaves a cycle only by the update_one of an
\* UpdateDirectory, and stays stored when it does.
C29_CycleBlocksDelete ==
    [][/\ (/\ TheCall.op = "DeleteDirectory" /\ TheCall.pc \in HandlerPcs
           /\ calls'["w1"].pc = "done"
           /\ TheCall.req.id \in DOMAIN pre.dirs
           /\ pre.dirs[TheCall.req.id].owner_id = TheCall.user_id
           /\ OnCycle(pre.dirs, TheCall.req.id)) =>
              /\ Refused(calls'["w1"].resp)
              /\ dirs' = pre.dirs /\ files' = pre.files
       /\ \A D \in DOMAIN dirs :
            (OnCycle(dirs, D) /\ ~(D \in DOMAIN dirs' /\ OnCycle(dirs', D))) =>
               /\ TheCall.op = "UpdateDirectory" /\ TheCall.pc = "h3"
               /\ D \in DOMAIN dirs']_vars

\* The owner's DeleteDirectory on a directory that is its own parent was
\* refused, after an UpdateDirectory had put it there.
C29_Witness ==
    /\ TheCall.pc = "done" /\ TheCall.op = "DeleteDirectory"
    /\ Refused(TheCall.resp)
    /\ TheCall.req.id = "1" /\ DOMAIN dirs = {"1"}
    /\ dirs["1"].owner_id = TheCall.user_id
    /\ dirs["1"].parent_id = "1"
    /\ StoreAsBefore

\* --------------------------------------------------------- unusual requests
\* A sequential client whose requests also carry an id that is no ObjectId,
\* an id that is not stored, and an empty parent_directory_id; listings are
\* asked for with and without a credential.
EdgeRequests ==
    LET h == <<"Bearer", "s1">>
    IN  {Call("CreateDirectory", h, [NoReq EXCEPT !.name = "a"])}
        \cup {Call("RegisterFile", h, [NoReq EXCEPT !.name = "a", !.parent_directory_id = p,
                                                    !.external_file_id = "e1"]) :
                 p \in {"", "1"}}
        \cup {Call("UpdateDirectory", h, [NoReq EXCEPT !.id = i, !.name = "b",
                                                       !.parent_id = "no_change"]) :
                 i \in {"1", "x"}}
        \cup {Call("UpdateFile", h, [NoReq EXCEPT !.id = i, !.name = "b"]) : i \in {"2", "x"}}
        \cup {Call("DeleteDirectory", h, [NoReq EXCEPT !.id = i]) : i \in {"1", "x"}}
        \cup {Call("DeleteFile", h, [NoReq EXCEPT !.id = i]) : i \in {"2", "x"}}
        \cup {Call("GetDirectoryContent", g, [NoReq EXCEPT !.directory_id = i]) :
                 g \in Headers, i \in {"", "1"}}

NextEdge ==
    \/ SessionsAlone
    \/ \E c \in EdgeRequests : SendAlone("w1", c, EdgeCalls)
    \/ CreateDirectory("w1")
    \/ UpdateDirectory("w1")
    \/ DeleteDirectory("w1")
    \/ GetDirectoryContent("w1")
    \/ RegisterFile("w1")
    \/ UpdateFile("w1")
    \/ DeleteFile("w1")
    \/ ReturnAlone("w1")

SpecEdge == Init /\ [][NextEdge]_vars

\* The caller of an update or delete call lacks the right the call needs:
\* write access for an update, ownership for a delete.
LacksRight(doc) ==
    IF TheCall.op \in UpdateMethods
    THEN ~(AclOwner(doc, ResolvedCaller) \/ AclWriter(doc, ResolvedCaller))
    ELSE ~AclOwner(doc, ResolvedCaller)

\* C26: a finished UpdateDirectory, UpdateFile, DeleteDirectory or DeleteFile
\* of an unresolved caller is answered authentication-required whatever the
\* id; else, when the id is not stored, not-found whatever the caller; else,
\* when the caller lacks the right, permission-denied; and in each of these
\* cases the store is as it was.
C26_FailurePrecedence ==
    (TheCall.pc = "done"
       /\ TheCall.op \in {"UpdateDirectory", "UpdateFile", "DeleteDirectory", "DeleteFile"}) =>
        IF ResolvedCaller = None
        THEN TheCall.resp.code = "UNAUTHENTICATED" /\ StoreAsBefore
        ELSE IF TheCall.req.id \notin DOMAIN PreCollection
        THEN TheCall.resp.code = "NOT_FOUND" /\ StoreAsBefore
        ELSE IF LacksRight(PreCollection[TheCall.req.id])
        THEN TheCall.resp.code = "PERMISSION_DENIED" /\ StoreAsBefore
        ELSE TheCall.resp.code = "OK"

\* C30: a RegisterFile with an empty parent_directory_id stores the empty
\* string, not the root sentinel, and no GetDirectoryContent reply, of the
\* root or of a directory, for the owner or anyone else, holds a file whose
\* stored parent_directory_id is empty.
C30_FileWithoutParentIsNeverListed ==
    /\ (TheCall.pc = "done" /\ TheCall.op = "RegisterFile"
          /\ TheCall.resp.code = "OK" /\ TheCall.req.parent_directory_id = "") =>
            /\ TheCall.resp.body.id \in DOMAIN files
            /\ files[TheCall.resp.body.id].parent_directory_id = ""
    /\ \A f \in DOMAIN files : files[f].parent_directory_id # None
    /\ (GetDone /\ TheCall.resp.code = "OK") =>
          \A r \in TheCall.resp.body.files :
             r.id \in DOMAIN files /\ files[r.id].parent_directory_id # ""

\* The owner lists the root while the only file, its own, is stored with an
\* empty parent_directory_id: the reply holds no file.
C30_Witness ==
    /\ GetDone /\ TheCall.resp.code = "OK"
    /\ TheCall.req.directory_id = ""
    /\ DOMAIN files = {"1"}
    /\ files["1"].parent_directory_id = ""
    /\ files["1"].owner_id = ResolvedCaller
    /\ TheCall.resp.body.files = {}

\* C27: when a call of the sequential client has ended, a deletion request
\* was issued to the blob service for the external_file_id of every file the
\* call removed: the id was delivered, or the failed request was logged.
C27_EveryRemovalReachesTheBlobService ==
    TheCall.pc = "done" =>
        \A f \in DOMAIN pre.files \ DOMAIN files :
            \/ pre.files[f].external_file_id \in blob
            \/ "File Service error" \in TheCall.log

\* C28: under concurrent handlers every update_one of an UpdateDirectory is
\* made for a caller who owns the directory or is in its allowed_writers as
\* the directory is stored at that moment; a writer whose removal from the
\* list has been written writes no more.
C28_WriteAccessAtTheWrite ==
    [][\A w \in Workers :
         (/\ calls[w].op = "UpdateDirectory" /\ calls[w].pc = "h3"
          /\ calls'[w] # calls[w]
          /\ calls[w].req.id \in DOMAIN dirs) =>
            \/ AclOwner(dirs[calls[w].req.id], calls[w].user_id)
            \/ AclWriter(dirs[calls[w].req.id], calls[w].user_id)]_vars

====
